---- MODULE Spec2Model ----
(***************************************************************************)
(* Software video backend of Ruffle (core/src/backend/video/software.rs):  *)
(* the stream registry (SoftwareVideoBackend), the VP6 decoder with lazy   *)
(* initialisation and skip-frame reuse (vp6::Vp6Decoder), the H.263        *)
(* decoder (h263::H263Decoder) and the YUV -> RGBA / crop pipeline.        *)
(***************************************************************************)
EXTENDS Integers, Sequences, FiniteSets, TLC

VARIABLES
    streams,    \* SoftwareVideoBackend.streams: the arena's slots
    issued,     \* history: the handles register_video_stream has returned
    asked,      \* history: per slot, whether register_bitmap_raw was called for it
    ret,        \* outcome of the last backend call
    dec,        \* a Vp6Decoder driven directly through the VideoDecoder trait
    dret,       \* outcome of the last call on dec
    hist        \* history of the calls made on dec

vars == <<streams, issued, asked, ret, dec, dret, hist>>

backendVars == <<streams, issued, asked, ret>>
decoderVars == <<dec, dret, hist>>

(***************************************************************************)
(* Bounds of the model.                                                    *)
(***************************************************************************)
MaxPayloadLen == 4      \* encoded payloads of 0..MaxPayloadLen bytes
MaxStreams == 2         \* streams registered per backend instance
CallCap == 2            \* the history counters saturate here

(***************************************************************************)
(* Program constants.                                                      *)
(***************************************************************************)
MacroblockSize == 16    \* header.disp_w as usize * 16
AlphaOffsetLen == 3     \* &encoded_frame.data[3..], data.len() <= 3
BytesPerPixel == 4      \* rgba.chunks_mut(4), width * height * 4
TopBit == 128           \* 0b_1000_0000

Min(a, b) == IF a < b THEN a ELSE b

\* Option<T>: None is the empty sequence, Some(x) a one-element sequence
None == <<>>
Some(x) == <<x>>
IsSome(o) == Len(o) > 0
Unwrap(o) == o[1]

NoError == ""

(***************************************************************************)
(* Inputs.                                                                 *)
(***************************************************************************)
\* EncodedFrame.data: byte strings; only the first byte is read by this
\* module (preload_frame), the rest is handed to the codec library.
Payloads ==
    {<<>>} \cup
    UNION {{[i \in 1..n |-> IF i = 1 THEN b ELSE 0] : b \in {0, TopBit}} : n \in 1..MaxPayloadLen}

\* Payloads handed to preload_frame: those above, and some that differ in the
\* low bits of the first byte and in the bytes after it.
PreloadPayloads ==
    Payloads \cup {<<1>>, <<127>>, <<255>>, <<0, 255>>, <<127, 128>>, <<128, 255>>}

\* The size handed to register_video_stream / Vp6Decoder::new.
BoundsSet == {<<20, 20>>, <<16, 32>>}

\* Picture contents the codec library may produce.
Contents == {0, 1}

\* Picture sizes, in macroblocks per direction, the codec library may produce.
MBCounts == {1, 2}

\* NABufferRef<NAVideoBuffer<u8>>: a decoded, macroblock-aligned YUV(A) 4:2:0 picture.
Frames ==
    [w : {MacroblockSize * i : i \in MBCounts},
     h : {MacroblockSize * i : i \in MBCounts},
     content : Contents]

(***************************************************************************)
(* The planes of a decoded picture (NAVideoBuffer::get_data, get_offset,   *)
(* get_dimensions): luma, two half-resolution chroma planes and, for the   *)
(* alpha format, a full-resolution alpha plane, stored without row padding.*)
(***************************************************************************)
ChromaDim(n) == (n + 1) \div 2

LumaSample(f, i) == 16 + ((f.content * 61 + i * 7) % 220)
ChromaUSample(f, i) == (f.content * 29 + i * 11 + 90) % 256
ChromaVSample(f, i) == (f.content * 43 + i * 5 + 100) % 256
AlphaSample(f, i) == (f.content * 97 + i * 13) % 256

get_dimensions(f, plane) ==
    IF plane = 0 \/ plane = 3 THEN <<f.w, f.h>> ELSE <<ChromaDim(f.w), ChromaDim(f.h)>>

get_offset(f, plane) ==
    LET luma == f.w * f.h
        chroma == ChromaDim(f.w) * ChromaDim(f.h)
    IN  CASE plane = 0 -> 0
          [] plane = 1 -> luma
          [] plane = 2 -> luma + chroma
          [] OTHER -> luma + 2 * chroma

get_data(f, with_alpha) ==
    LET luma == f.w * f.h
        chroma == ChromaDim(f.w) * ChromaDim(f.h)
        total == luma + 2 * chroma + (IF with_alpha THEN luma ELSE 0)
    IN  [k \in 1..total |->
            IF k <= luma THEN LumaSample(f, k - 1)
            ELSE IF k <= luma + chroma THEN ChromaUSample(f, k - 1 - luma)
            ELSE IF k <= luma + 2 * chroma THEN ChromaVSample(f, k - 1 - luma - chroma)
            ELSE AlphaSample(f, k - 1 - luma - 2 * chroma)]

\* &buf[start..end] with 0-based, end-exclusive offsets
Slice(buf, start, end) == SubSeq(buf, start + 1, end)

(***************************************************************************)
(* h263_rs_yuv::bt601::yuv420_to_rgba: limited-range BT.601, opaque alpha. *)
(***************************************************************************)
ClampU8(x) == IF x < 0 THEN 0 ELSE IF x > 255 THEN 255 ELSE x

Bt601(y, u, v, channel) ==
    LET c == 298 * (y - 16)
        d == u - 128
        e == v - 128
    IN  CASE channel = 0 -> ClampU8((c + 409 * e + 128) \div 256)
          [] channel = 1 -> ClampU8((c - 100 * d - 208 * e + 128) \div 256)
          [] OTHER -> ClampU8((c + 516 * d + 128) \div 256)

yuv420_to_rgba(y, u, v, width, chroma_width) ==
    [k \in 1..(BytesPerPixel * Len(y)) |->
        LET i == (k - 1) \div BytesPerPixel
            channel == (k - 1) % BytesPerPixel
            ci == ((i \div width) \div 2) * chroma_width + ((i % width) \div 2)
        IN  IF channel = 3 THEN 255
            ELSE Bt601(y[i + 1], u[ci + 1], v[ci + 1], channel)]

(***************************************************************************)
(* Vp6Decoder::decode_frame, lines 373-389: the alpha plane is zipped with *)
(* the 4-byte chunks of rgba; colour channels are clamped to alpha.        *)
(***************************************************************************)
\* Mutant: the colour channels are not clamped to alpha.
AlphaPixel_NoClamp(r, g, b, alpha) == <<r, g, b, alpha>>

AlphaPixel(r, g, b, alpha) == <<Min(r, alpha), Min(g, alpha), Min(b, alpha), alpha>>

ApplyAlpha(rgba, alpha) ==
    [k \in 1..Len(rgba) |->
        LET i == (k - 1) \div BytesPerPixel
            base == i * BytesPerPixel
        IN  IF i + 1 > Len(alpha) \/ base + BytesPerPixel > Len(rgba) THEN rgba[k]
            ELSE AlphaPixel(rgba[base + 1], rgba[base + 2], rgba[base + 3],
                            alpha[i + 1])[k - base]]

(***************************************************************************)
(* Vp6Decoder::decode_frame, lines 394-426: cropping to the bounds.        *)
(***************************************************************************)
\* slice::copy_within(src_start..src_end, dest): memmove inside the buffer
copy_within(buf, src_start, src_end, dest) ==
    LET n == src_end - src_start
    IN  SubSeq(buf, 1, dest) \o Slice(buf, src_start, src_end)
            \o SubSeq(buf, dest + n + 1, Len(buf))

\* Vec::truncate
truncate(buf, n) == SubSeq(buf, 1, Min(n, Len(buf)))

\* Mutant: no row is moved.
SquishRows_NoRowMoved(rgba, row, new_height, width, new_width) == rgba

\* for row in 1..new_height { rgba.copy_within(...) }
RECURSIVE SquishRows(_, _, _, _, _)
SquishRows(rgba, row, new_height, width, new_width) ==
    IF row >= new_height THEN rgba
    ELSE SquishRows(
            copy_within(rgba,
                        row * width * BytesPerPixel,
                        (row * width + new_width) * BytesPerPixel,
                        row * new_width * BytesPerPixel),
            row + 1, new_height, width, new_width)

SmallerThanBounds(width, height, bounds) == width < bounds[1] \/ height < bounds[2]

NeedsSquish(width, bounds) == width > bounds[1]

\* Mutant: the final clamp of the height to the bounds (line 419) is left out.
CroppedHeight_NoClamp(height, bounds) == height

CroppedHeight(height, bounds) == Min(height, bounds[2])

AsU16(n) == n % 65536

Crop(rgba, width, height, bounds) ==
    LET squish == NeedsSquish(width, bounds)
        new_width == bounds[1]
        new_height == Min(height, bounds[2])
        rgba1 == IF squish THEN SquishRows(rgba, 1, new_height, width, new_width) ELSE rgba
        width1 == IF squish THEN new_width ELSE width
        height1 == IF squish THEN new_height ELSE height
        height2 == CroppedHeight(height1, bounds)
    IN  [width |-> AsU16(width1),
         height |-> AsU16(height2),
         rgba |-> truncate(rgba1, width1 * height2 * BytesPerPixel)]

(***************************************************************************)
(* Vp6Decoder::decode_frame, lines 344-426: conversion of the frame picked *)
(* by the skip / decode step into the returned DecodedFrame.               *)
(***************************************************************************)
\* lines 346-369: the YUV planes converted to opaque RGBA
FrameRgb(with_alpha, frame) ==
    LET yuv == get_data(frame, with_alpha)
        width == get_dimensions(frame, 0)[1]
        height == get_dimensions(frame, 0)[2]
        chroma_width == get_dimensions(frame, 1)[1]
        chroma_height == get_dimensions(frame, 1)[2]
        o0 == get_offset(frame, 0)
        o1 == get_offset(frame, 1)
        o2 == get_offset(frame, 2)
    IN  yuv420_to_rgba(Slice(yuv, o0, o0 + width * height),
                       Slice(yuv, o1, o1 + chroma_width * chroma_height),
                       Slice(yuv, o2, o2 + chroma_width * chroma_height),
                       width, chroma_width)

\* lines 375-376: the alpha plane of a picture in the alpha format
FrameAlpha(frame) ==
    Slice(get_data(frame, TRUE), get_offset(frame, 3),
          get_offset(frame, 3) + get_dimensions(frame, 0)[1] * get_dimensions(frame, 0)[2])

\* lines 346-389: the uncropped RGBA buffer
FrameRgba(with_alpha, frame) ==
    IF with_alpha
    THEN ApplyAlpha(FrameRgb(with_alpha, frame), FrameAlpha(frame))
    ELSE FrameRgb(with_alpha, frame)

ConvertFrame(with_alpha, bounds, frame) ==
    Crop(FrameRgba(with_alpha, frame), get_dimensions(frame, 0)[1],
         get_dimensions(frame, 0)[2], bounds)

\* The uncropped buffers, tabulated once.
RgbTable == [a \in BOOLEAN, f \in Frames |-> SubSeq(FrameRgb(a, f), 1, BytesPerPixel * f.w * f.h)] @@ <<>>

AlphaTable == [f \in Frames |-> FrameAlpha(f)] @@ <<>>

RgbaTable ==
    [a \in BOOLEAN, f \in Frames |-> SubSeq(FrameRgba(a, f), 1, BytesPerPixel * f.w * f.h)] @@ <<>>

\* The conversion depends only on the decoder's immutable fields and the frame;
\* it is tabulated once.
ConvertTable ==
    [a \in BOOLEAN, b \in BoundsSet, f \in Frames |-> ConvertFrame(a, b, f)] @@ <<>>

Converted(with_alpha, bounds, frame) == ConvertTable[with_alpha, bounds, frame]

(***************************************************************************)
(* Error values (the messages of the Error strings the code builds).       *)
(***************************************************************************)
ErrUnsupportedCodec == "Unsupported video codec type"
ErrUnregistered == "Unregistered video stream"
ErrBoolCoder == "Error constructing VP6 bool coder"
ErrHeader == "Error parsing VP6 frame header"
ErrInit == "Error initializing VP6 decoder"
ErrNoPreviousFrame == "No previous frame found when encountering a skip frame"
ErrDecoder == "VP6 decoder error"
ErrBufferType == "Unexpected buffer type after decoding a VP6 frame"

(***************************************************************************)
(* Outcomes of the codec library calls made by Vp6Decoder::decode_frame.   *)
(* The library is not part of this module: each call may fail or succeed.  *)
(***************************************************************************)
\* VP6BR::parse_header: the display size in macroblocks
Headers == [disp_w : MBCounts, disp_h : MBCounts]

\* BoolCoder::new, VP6BR::parse_header and VP56Decoder::init, in call order
LibInit ==
    {[bool_coder |-> FALSE, header |-> None, init |-> FALSE],
     [bool_coder |-> TRUE, header |-> None, init |-> FALSE]}
    \cup [bool_coder : {TRUE}, header : {Some(h) : h \in Headers}, init : BOOLEAN]

\* VP56Decoder::decode_frame: an error, a non-video buffer, or a video buffer
LibDecode ==
    {[kind |-> "Err", buffer |-> None], [kind |-> "NotVideo", buffer |-> None]}
    \cup {[kind |-> "Video", buffer |-> Some(f)] : f \in Frames}

\* Mutant: the library decides on every slice, the empty one included.
BoolCoder_new_AnySlice(src, lib) == lib.bool_coder

\* BoolCoder::new reads the start of the slice: nothing can be read from an
\* empty one; on any other slice the library decides.
BoolCoder_new(src, lib) == Len(src) > 0 /\ lib.bool_coder

NAVideoInfo_new(header, with_alpha) ==
    [width |-> header.disp_w * MacroblockSize,
     height |-> header.disp_h * MacroblockSize,
     flipped |-> TRUE,
     format |-> IF with_alpha THEN "VP_YUVA420_FORMAT" ELSE "YUV420_FORMAT"]

VP56Decoder_init(video_info, lib) == lib.init

(***************************************************************************)
(* vp6::Vp6Decoder                                                         *)
(***************************************************************************)
Vp6Decoder_new(with_alpha, bounds) ==
    [with_alpha |-> with_alpha,
     bounds |-> bounds,
     init_called |-> FALSE,
     last_frame |-> None]

\* impl Default for Vp6Decoder
Vp6Decoder_default == Vp6Decoder_new(FALSE, <<0, 0>>)

\* Mutant: the lowest bit of the first byte is tested instead of the top bit.
Vp6Decoder_preload_frame_LowBit(self, data) ==
    IF Len(data) # 0 /\ data[1] % 2 = 0
    THEN "FrameDependency::None"
    ELSE "FrameDependency::Past"

\* lines 255-268
Vp6Decoder_preload_frame(self, data) ==
    IF Len(data) # 0 /\ (data[1] \div TopBit) % 2 = 0
    THEN "FrameDependency::None"
    ELSE "FrameDependency::Past"

\* line 276: &encoded_frame.data[3..] is out of range for a shorter payload
AlphaSliceOutOfRange(self, data) == self.with_alpha /\ Len(data) < AlphaOffsetLen

\* lines 274-279: the bytes handed to BoolCoder::new
InitSource(self, data) ==
    IF self.with_alpha THEN Slice(data, AlphaOffsetLen, Len(data)) ELSE data

\* Mutant: line 308 is left out, the flag is never set.
MarkInitCalled_Forgotten(self) == self

\* line 308
MarkInitCalled(self) == [self EXCEPT !.init_called = TRUE]

\* Mutant: the flag is set on entering the block, before the fallible calls.
LazyInit_MarksEarly(self, data, lib) ==
    IF self.init_called THEN [outcome |-> "skipped", self |-> self]
    ELSE IF AlphaSliceOutOfRange(self, data) THEN [outcome |-> "panic", self |-> self]
    ELSE IF ~BoolCoder_new(InitSource(self, data), lib)
         THEN [outcome |-> ErrBoolCoder, self |-> MarkInitCalled(self)]
    ELSE IF ~IsSome(lib.header) THEN [outcome |-> ErrHeader, self |-> MarkInitCalled(self)]
    ELSE IF ~VP56Decoder_init(NAVideoInfo_new(Unwrap(lib.header), self.with_alpha), lib)
         THEN [outcome |-> ErrInit, self |-> MarkInitCalled(self)]
    ELSE [outcome |-> "done", self |-> MarkInitCalled(self)]

\* lines 273-309: outcome is "skipped" (already initialised), "done",
\* "panic", or the error returned
LazyInit(self, data, lib) ==
    IF self.init_called THEN [outcome |-> "skipped", self |-> self]
    ELSE IF AlphaSliceOutOfRange(self, data) THEN [outcome |-> "panic", self |-> self]
    ELSE IF ~BoolCoder_new(InitSource(self, data), lib)
         THEN [outcome |-> ErrBoolCoder, self |-> self]
    ELSE IF ~IsSome(lib.header) THEN [outcome |-> ErrHeader, self |-> self]
    ELSE IF ~VP56Decoder_init(NAVideoInfo_new(Unwrap(lib.header), self.with_alpha), lib)
         THEN [outcome |-> ErrInit, self |-> self]
    ELSE [outcome |-> "done", self |-> MarkInitCalled(self)]

\* lines 311-312
IsSkipFrame(self, data) ==
    Len(data) = 0 \/ (self.with_alpha /\ Len(data) <= AlphaOffsetLen)

\* Mutant: the remembered frame is moved out of the decoder when it is reused.
ReuseLastFrame_Forgets(self) ==
    IF IsSome(self.last_frame)
    THEN [outcome |-> "ok", frame |-> self.last_frame,
          self |-> [self EXCEPT !.last_frame = None]]
    ELSE [outcome |-> ErrNoPreviousFrame, frame |-> None, self |-> self]

\* lines 316-323
ReuseLastFrame(self) ==
    IF IsSome(self.last_frame)
    THEN [outcome |-> "ok", frame |-> self.last_frame, self |-> self]
    ELSE [outcome |-> ErrNoPreviousFrame, frame |-> None, self |-> self]

\* Mutant: only the first decoded frame is remembered.
RememberFrame_FirstOnly(self, frame) ==
    IF IsSome(self.last_frame) THEN self ELSE [self EXCEPT !.last_frame = Some(frame)]

\* line 339
RememberFrame(self, frame) == [self EXCEPT !.last_frame = Some(frame)]

\* Mutant: a failed decode drops the remembered frame.
DecodeReal_ClearsOnError(self, decoded) ==
    IF decoded.kind = "Err"
    THEN [outcome |-> ErrDecoder, frame |-> None, self |-> [self EXCEPT !.last_frame = None]]
    ELSE IF decoded.kind # "Video"
         THEN [outcome |-> ErrBufferType, frame |-> None,
               self |-> [self EXCEPT !.last_frame = None]]
    ELSE [outcome |-> "ok", frame |-> decoded.buffer,
          self |-> RememberFrame(self, Unwrap(decoded.buffer))]

\* lines 327-341
DecodeReal(self, decoded) ==
    IF decoded.kind = "Err" THEN [outcome |-> ErrDecoder, frame |-> None, self |-> self]
    ELSE IF decoded.kind # "Video"
         THEN [outcome |-> ErrBufferType, frame |-> None, self |-> self]
    ELSE [outcome |-> "ok", frame |-> decoded.buffer,
          self |-> RememberFrame(self, Unwrap(decoded.buffer))]

\* lines 311-342
PickFrame(self, data, decoded) ==
    IF IsSkipFrame(self, data) THEN ReuseLastFrame(self) ELSE DecodeReal(self, decoded)

\* The value a decode_frame call hands back, with what the call went through.
DecodeResult(kind, error, frame, init_attempted, init_done, skip, warned) ==
    [kind |-> kind, error |-> error, frame |-> frame,
     init_attempted |-> init_attempted, init_done |-> init_done,
     skip |-> skip, warned |-> warned]

\* Mutant: a frame smaller than the bounds is refused.
ReturnFrame_UndersizedFails(self, attempted, done, skip, pick) ==
    IF pick.outcome # "ok"
    THEN [self |-> pick.self,
          result |-> DecodeResult("Err", pick.outcome, None, attempted, done, skip, FALSE)]
    ELSE IF SmallerThanBounds(Unwrap(pick.frame).w, Unwrap(pick.frame).h, self.bounds)
    THEN [self |-> pick.self,
          result |-> DecodeResult("Err", ErrBufferType, None, attempted, done, skip, TRUE)]
    ELSE [self |-> pick.self,
          result |-> DecodeResult("Ok", NoError,
                        Some(Converted(self.with_alpha, self.bounds, Unwrap(pick.frame))),
                        attempted, done, skip, FALSE)]

\* lines 344-426: the picked frame converted, cropped and returned
ReturnFrame(self, attempted, done, skip, pick) ==
    IF pick.outcome # "ok"
    THEN [self |-> pick.self,
          result |-> DecodeResult("Err", pick.outcome, None, attempted, done, skip, FALSE)]
    ELSE [self |-> pick.self,
          result |-> DecodeResult("Ok", NoError,
                        Some(Converted(self.with_alpha, self.bounds, Unwrap(pick.frame))),
                        attempted, done, skip,
                        SmallerThanBounds(Unwrap(pick.frame).w,
                                          Unwrap(pick.frame).h, self.bounds))]

\* lines 309-427: what follows the lazy initialisation block
AfterLazyInit(self, data, decoded, init) ==
    IF init.outcome = "panic"
    THEN [self |-> init.self,
          result |-> DecodeResult("Panic", NoError, None, TRUE, FALSE, FALSE, FALSE)]
    ELSE IF init.outcome \notin {"skipped", "done"}
    THEN [self |-> init.self,
          result |-> DecodeResult("Err", init.outcome, None, TRUE, FALSE, FALSE, FALSE)]
    ELSE ReturnFrame(self, init.outcome # "skipped", init.outcome = "done",
                     IsSkipFrame(init.self, data),
                     PickFrame(init.self, data, decoded))

\* lines 270-427
Vp6Decoder_decode_frame(self, data, lib, decoded) ==
    AfterLazyInit(self, data, decoded, LazyInit(self, data, lib))

(***************************************************************************)
(* h263::H263Decoder.  H263State is the library's; of it the model keeps   *)
(* the last decoded picture.                                               *)
(***************************************************************************)
ErrH263Parse == "H.263 bitstream error"
ErrNotAPicture == "Picture in video stream is not a picture"
ErrPictureType == "Invalid picture type code!"
ErrH263Format == "H.263 decoder error!"

\* h263_rs::PictureTypeCode
PictureTypeCodes ==
    {"IFrame", "PFrame", "PbFrame", "EpFrame", "DisposablePFrame", "Reserved"}

\* H263State::parse_picture: an error, no picture, or a picture header
LibParsePicture ==
    {[kind |-> "Err", picture_type |-> ""], [kind |-> "NoPicture", picture_type |-> ""]}
    \cup {[kind |-> "Picture", picture_type |-> t] : t \in PictureTypeCodes}

\* the pictures H263State::decode_next_picture may produce
H263Pictures == {g \in Frames : g.content = 0 /\ g.w = g.h}

\* H263State::decode_next_picture: an error, or a picture whose source format
\* has a size or not
LibDecodePicture ==
    {[kind |-> "Err", sized |-> FALSE, picture |-> None]}
    \cup {[kind |-> "Picture", sized |-> z, picture |-> Some(f)] :
            z \in BOOLEAN, f \in H263Pictures}

H263Decoder_new == [last_picture |-> None]

\* Mutant: only PFrame counts as predicted.
H263Decoder_preload_frame_DisposableInvalid(self, data, parsed) ==
    IF parsed.kind = "Err" THEN [kind |-> "Err", error |-> ErrH263Parse, dependency |-> ""]
    ELSE IF parsed.kind = "NoPicture"
         THEN [kind |-> "Err", error |-> ErrNotAPicture, dependency |-> ""]
    ELSE IF parsed.picture_type = "IFrame"
         THEN [kind |-> "Ok", error |-> NoError, dependency |-> "FrameDependency::None"]
    ELSE IF parsed.picture_type = "PFrame"
         THEN [kind |-> "Ok", error |-> NoError, dependency |-> "FrameDependency::Past"]
    ELSE [kind |-> "Err", error |-> ErrPictureType, dependency |-> ""]

\* lines 156-172
H263Decoder_preload_frame(self, data, parsed) ==
    IF parsed.kind = "Err" THEN [kind |-> "Err", error |-> ErrH263Parse, dependency |-> ""]
    ELSE IF parsed.kind = "NoPicture"
         THEN [kind |-> "Err", error |-> ErrNotAPicture, dependency |-> ""]
    ELSE IF parsed.picture_type = "IFrame"
         THEN [kind |-> "Ok", error |-> NoError, dependency |-> "FrameDependency::None"]
    ELSE IF parsed.picture_type \in {"PFrame", "DisposablePFrame"}
         THEN [kind |-> "Ok", error |-> NoError, dependency |-> "FrameDependency::Past"]
    ELSE [kind |-> "Err", error |-> ErrPictureType, dependency |-> ""]

\* lines 184-195: the picture's planes converted to RGBA, uncropped
H263Convert(picture) ==
    LET yuv == get_data(picture, FALSE)
        luma == picture.w * picture.h
        chroma_width == ChromaDim(picture.w)
        chroma == chroma_width * ChromaDim(picture.h)
        rgba == yuv420_to_rgba(Slice(yuv, 0, luma), Slice(yuv, luma, luma + chroma),
                               Slice(yuv, luma + chroma, luma + 2 * chroma),
                               picture.w, chroma_width)
    IN  [width |-> AsU16(picture.w), height |-> AsU16(picture.h),
         rgba |-> SubSeq(rgba, 1, Len(rgba))]

H263Table == [g \in H263Pictures |-> H263Convert(g)] @@ <<>>

\* lines 174-196
H263Decoder_decode_frame(self, data, decoded) ==
    IF decoded.kind = "Err"
    THEN [self |-> self,
          result |-> DecodeResult("Err", ErrH263Parse, None, FALSE, FALSE, FALSE, FALSE)]
    ELSE LET self1 == [self EXCEPT !.last_picture = decoded.picture]
             picture == Unwrap(self1.last_picture)
         IN  IF ~decoded.sized
             THEN [self |-> self1,
                   result |-> DecodeResult("Err", ErrH263Format, None,
                                           FALSE, FALSE, FALSE, FALSE)]
             ELSE [self |-> self1,
                   result |-> DecodeResult("Ok", NoError,
                                Some(H263Table[picture]),
                                FALSE, FALSE, FALSE, FALSE)]

(***************************************************************************)
(* SoftwareVideoBackend: the stream registry.                              *)
(***************************************************************************)
\* swf::VideoCodec
VideoCodecs == {"H263", "ScreenVideo", "Vp6", "Vp6WithAlpha", "ScreenVideoV2"}

ErrRenderer == "Renderer error"

\* generational_arena::Arena without removals: slot i holds generation 0
Arena_new == <<>>

\* Mutant: every insertion hands out the index of the first slot.
Arena_insert_FirstIndex(arena, value) ==
    [arena |-> Append(arena, [generation |-> 0, value |-> value]),
     index |-> [index |-> 0, generation |-> 0]]

Arena_insert(arena, value) ==
    [arena |-> Append(arena, [generation |-> 0, value |-> value]),
     index |-> [index |-> Len(arena), generation |-> 0]]

Arena_get(arena, handle) ==
    IF handle.index < Len(arena) /\ arena[handle.index + 1].generation = handle.generation
    THEN Some(arena[handle.index + 1].value)
    ELSE None

Arena_set(arena, handle, value) ==
    [arena EXCEPT ![handle.index + 1].value = value]

\* lines 22-28
SoftwareVideoBackend_new == Arena_new

\* lines 99-106
VideoStream_new(decoder) == [decoder |-> decoder, bitmap |-> None]

\* lines 39-47, with the h263 and vp6 features enabled
NewDecoder(codec, size) ==
    CASE codec = "H263" -> Some([codec |-> "H263", state |-> H263Decoder_new])
      [] codec = "Vp6" -> Some([codec |-> "Vp6", state |-> Vp6Decoder_new(FALSE, size)])
      [] codec = "Vp6WithAlpha" ->
            Some([codec |-> "Vp6", state |-> Vp6Decoder_new(TRUE, size)])
      [] OTHER -> None

\* Mutant: the arena slot is allocated before the codec is matched.
register_video_stream_AllocatesFirst(self, size, codec) ==
    LET decoder == NewDecoder(codec, size)
        placeholder == [codec |-> "H263", state |-> H263Decoder_new]
        inserted == Arena_insert(self, VideoStream_new(
                        IF IsSome(decoder) THEN Unwrap(decoder) ELSE placeholder))
    IN  IF ~IsSome(decoder)
        THEN [streams |-> inserted.arena, kind |-> "Err", error |-> ErrUnsupportedCodec,
              handle |-> None]
        ELSE [streams |-> inserted.arena, kind |-> "Ok", error |-> NoError,
              handle |-> Some(inserted.index)]

\* lines 32-51
register_video_stream(self, size, codec) ==
    LET decoder == NewDecoder(codec, size)
    IN  IF ~IsSome(decoder)
        THEN [streams |-> self, kind |-> "Err", error |-> ErrUnsupportedCodec,
              handle |-> None]
        ELSE LET inserted == Arena_insert(self, VideoStream_new(Unwrap(decoder)))
             IN  [streams |-> inserted.arena, kind |-> "Ok", error |-> NoError,
                  handle |-> Some(inserted.index)]

\* dyn VideoDecoder dispatch of preload_frame
Decoder_preload_frame(decoder, data, lib) ==
    IF decoder.codec = "H263"
    THEN H263Decoder_preload_frame(decoder.state, data, lib.parsed)
    ELSE [kind |-> "Ok", error |-> NoError,
          dependency |-> Vp6Decoder_preload_frame(decoder.state, data)]

\* The boxed decoder after a call on it, with the call's result
Decoder_after(decoder, call) ==
    [decoder |-> [decoder EXCEPT !.state = call.self], result |-> call.result]

\* dyn VideoDecoder dispatch of decode_frame
Decoder_decode_frame(decoder, data, lib) ==
    Decoder_after(decoder,
        IF decoder.codec = "H263"
        THEN H263Decoder_decode_frame(decoder.state, data, lib.picture)
        ELSE Vp6Decoder_decode_frame(decoder.state, data, lib.init, lib.decoded))

\* lines 53-64
preload_video_stream_frame(self, handle, data, lib) ==
    LET stream == Arena_get(self, handle)
    IN  IF ~IsSome(stream)
        THEN [kind |-> "Err", error |-> ErrUnregistered, dependency |-> ""]
        ELSE Decoder_preload_frame(Unwrap(stream).decoder, data, lib)

\* Mutant: a new bitmap is registered for every frame.
RendererCall_AlwaysRegisters(stream) == "register_bitmap_raw"

\* lines 78-82: which renderer operation the frame goes through
RendererCall(stream) ==
    IF IsSome(stream.bitmap) THEN "update_texture" ELSE "register_bitmap_raw"

\* line 83
StoreBitmap(stream, handle) == [stream EXCEPT !.bitmap = Some(handle)]

\* Mutant: width and height change places.
BitmapInfo_Swapped(handle, frame) ==
    [handle |-> handle, width |-> frame.height, height |-> frame.width]

\* lines 85-89
BitmapInfo(handle, frame) ==
    [handle |-> handle, width |-> frame.width, height |-> frame.height]

\* Mutant: the renderer operation is chosen and reported before the decoder's
\* result is looked at.
RenderFrame_RendersFirst(self, handle, stream, call, rendered) ==
    IF call.result.kind # "Ok" \/ ~rendered.ok
    THEN [streams |-> Arena_set(self, handle, stream),
          kind |-> "Err",
          error |-> IF call.result.kind # "Ok" THEN call.result.error ELSE ErrRenderer,
          info |-> None, renderer |-> RendererCall(stream)]
    ELSE [streams |-> Arena_set(self, handle, StoreBitmap(stream, rendered.handle)),
          kind |-> "Ok", error |-> NoError,
          info |-> Some(BitmapInfo(rendered.handle, Unwrap(call.result.frame))),
          renderer |-> RendererCall(stream)]

\* lines 77-90: the decoder's result handed to the renderer; rendered is the
\* outcome of the renderer operation
RenderFrame(self, handle, stream, call, rendered) ==
    IF call.result.kind # "Ok"
    THEN [streams |-> Arena_set(self, handle, stream),
          kind |-> call.result.kind, error |-> call.result.error,
          info |-> None, renderer |-> "none"]
    ELSE IF ~rendered.ok
    THEN [streams |-> Arena_set(self, handle, stream),
          kind |-> "Err", error |-> ErrRenderer,
          info |-> None, renderer |-> RendererCall(stream)]
    ELSE [streams |-> Arena_set(self, handle, StoreBitmap(stream, rendered.handle)),
          kind |-> "Ok", error |-> NoError,
          info |-> Some(BitmapInfo(rendered.handle, Unwrap(call.result.frame))),
          renderer |-> RendererCall(stream)]

\* Mutant: the decoder is put back as it was when the renderer call fails.
DecodeOnStream_RollsBack(self, handle, stream, call, rendered) ==
    RenderFrame(self, handle,
                IF call.result.kind = "Ok" /\ ~rendered.ok
                THEN stream
                ELSE [stream EXCEPT !.decoder = call.decoder],
                call, rendered)

\* The stream after decode_frame ran on its decoder
DecodeOnStream(self, handle, stream, call, rendered) ==
    RenderFrame(self, handle, [stream EXCEPT !.decoder = call.decoder], call, rendered)

\* lines 72-77 of decode_video_stream_frame, on a stream that was found
DecodeFound(self, handle, data, lib, rendered, stream) ==
    DecodeOnStream(self, handle, stream,
                   Decoder_decode_frame(stream.decoder, data, lib), rendered)

\* lines 66-90; rendered is the outcome of the renderer operation
decode_video_stream_frame(self, handle, data, lib, rendered) ==
    IF ~IsSome(Arena_get(self, handle))
    THEN [streams |-> self, kind |-> "Err", error |-> ErrUnregistered,
          info |-> None, renderer |-> "none"]
    ELSE DecodeFound(self, handle, data, lib, rendered, Unwrap(Arena_get(self, handle)))

\* The renderer was not called, or its call failed.
NotRendered == [ok |-> FALSE, handle |-> 0]

\* No library call is reached.
NoLibrary ==
    [parsed |-> [kind |-> "Err", picture_type |-> ""],
     picture |-> [kind |-> "Err", sized |-> FALSE, picture |-> None],
     init |-> [bool_coder |-> FALSE, header |-> None, init |-> FALSE],
     decoded |-> [kind |-> "Err", buffer |-> None]]

NoBackendCall ==
    [op |-> "new", codec |-> "", handle |-> None, origin |-> "",
     kind |-> "None", error |-> NoError, returned |-> None, dependency |-> "",
     info |-> None, renderer |-> "none", again |-> FALSE, parsed |-> None,
     rendered |-> NotRendered, data |-> <<>>, lib |-> NoLibrary]

(***************************************************************************)
(* A Vp6Decoder driven through preload_frame / decode_frame.               *)
(***************************************************************************)
Saturate(n) == Min(n + 1, CallCap)

NoCall == [op |-> "new", data |-> <<>>, result |-> [kind |-> "None"]]

NoHistory == [calls |-> 0, inits |-> 0, real_ok |-> FALSE, last_ok |-> None]

\* What the history records of a decode_frame call.
Record(h, result) ==
    LET real == result.kind = "Ok" /\ ~result.skip
    IN  [calls |-> Saturate(h.calls),
         inits |-> IF result.init_done THEN Saturate(h.inits) ELSE h.inits,
         real_ok |-> h.real_ok \/ real,
         last_ok |-> IF real THEN result.frame ELSE h.last_ok]

\* The library calls a decode_frame call can reach: none of the initialisation
\* calls once init_called is set, no VP56Decoder::decode_frame on a skip frame.
LibInitCalls(self) ==
    IF self.init_called
    THEN {[bool_coder |-> FALSE, header |-> None, init |-> FALSE]}
    ELSE LibInit

LibDecodeCalls(self, data) ==
    IF IsSkipFrame(self, data) THEN {[kind |-> "Err", buffer |-> None]} ELSE LibDecode

\* A panic aborts the program: nothing runs after it.
Aborted == dret.result.kind = "Panic"

BackendInitial ==
    /\ streams = SoftwareVideoBackend_new
    /\ issued = {}
    /\ asked = <<>>
    /\ ret = NoBackendCall

InitVp6 ==
    /\ BackendInitial
    /\ \E with_alpha \in BOOLEAN, bounds \in BoundsSet :
            dec = Vp6Decoder_new(with_alpha, bounds)
    /\ dret = NoCall
    /\ hist = NoHistory

Vp6PreloadFrame ==
    /\ ~Aborted
    /\ \E data \in PreloadPayloads :
            dret' = [op |-> "preload_frame", data |-> data,
                     result |-> [kind |-> "Ok",
                                 dependency |-> Vp6Decoder_preload_frame(dec, data)]]
    /\ UNCHANGED <<dec, hist, backendVars>>

Vp6DecodeFrame ==
    /\ ~Aborted
    /\ \E data \in Payloads :
       \E lib \in LibInitCalls(dec), decoded \in LibDecodeCalls(dec, data) :
            LET call == Vp6Decoder_decode_frame(dec, data, lib, decoded)
            IN  /\ dec' = call.self
                /\ dret' = [op |-> "decode_frame", data |-> data,
                            result |-> call.result]
                /\ hist' = Record(hist, call.result)
    /\ UNCHANGED backendVars

NextVp6 == Vp6PreloadFrame \/ Vp6DecodeFrame

SpecVp6 == InitVp6 /\ [][NextVp6]_vars

(***************************************************************************)
(* The backend driven through the VideoBackend trait.                      *)
(***************************************************************************)
\* Inputs and library outcomes of the backend scenarios.
BackendBounds == {<<20, 20>>}

\* The codecs streams are registered with: the H.263 decoder, the VP6 decoder
\* (in its alpha variant), and two codecs without decoder.
BackendCodecs == VideoCodecs \ {"Vp6"}

BackendPayloads == {<<>>, <<0, 0, 0, 0>>}

BackendLibInit ==
    {l \in LibInit :
        /\ l.bool_coder
        /\ IsSome(l.header) => (l.init /\ Unwrap(l.header) = [disp_w |-> 1, disp_h |-> 1])}

BackendLibDecode ==
    {d \in LibDecode :
        /\ d.kind # "NotVideo"
        /\ IsSome(d.buffer) =>
            LET f == Unwrap(d.buffer)
            IN  f.w # f.h /\ ((f.w > f.h) <=> (f.content = 0))}

\* RenderBackend::register_bitmap_raw / update_texture: an error or a handle
BitmapHandles == {1, 2}

RendererOutcomes ==
    {[ok |-> FALSE, handle |-> 0]} \cup {[ok |-> TRUE, handle |-> b] : b \in BitmapHandles}

\* The handles another SoftwareVideoBackend instance returns from its first n
\* registrations.
RECURSIVE HandlesOfInstance(_, _)
HandlesOfInstance(self, n) ==
    IF n = 0 THEN {}
    ELSE LET call == register_video_stream(self, <<20, 20>>, "Vp6")
         IN  {Unwrap(call.handle)} \cup HandlesOfInstance(call.streams, n - 1)

\* Handle values no registration returns: a slot past every arena, a generation
\* no slot has.
ForgedHandles ==
    {[index |-> MaxStreams, generation |-> 0], [index |-> 0, generation |-> 1]}

\* The handle passed to preload / decode: one this backend returned ("own"), the
\* one another instance returned from its first registration ("other"), or a
\* forged one ("never").
HandleInputs ==
    {[handle |-> h, origin |-> "own"] : h \in issued}
    \cup {[handle |-> h, origin |-> "other"] :
            h \in HandlesOfInstance(SoftwareVideoBackend_new, 1)}
    \cup {[handle |-> h, origin |-> "never"] : h \in ForgedHandles}

\* Whether the handle resolves to a stream decoded by the H.263 decoder.
IsH263Stream(self, handle) ==
    IsSome(Arena_get(self, handle)) /\ Unwrap(Arena_get(self, handle)).decoder.codec = "H263"

\* The library calls a preload on the stream under the handle can reach.
PreloadLibrary(self, handle) ==
    LET found == Arena_get(self, handle)
    IN  IF IsSome(found) /\ Unwrap(found).decoder.codec = "H263"
        THEN {[NoLibrary EXCEPT !.parsed = p] : p \in LibParsePicture}
        ELSE {NoLibrary}

\* The library calls a decode on the stream under the handle can reach.
DecodeLibrary(self, handle, data) ==
    LET found == Arena_get(self, handle)
    IN  IF ~IsSome(found) THEN {NoLibrary}
        ELSE IF Unwrap(found).decoder.codec = "H263"
        THEN {[NoLibrary EXCEPT !.picture = p] : p \in LibDecodePicture}
        ELSE LET vp6 == Unwrap(found).decoder.state
             IN  {[NoLibrary EXCEPT !.init = i, !.decoded = d] :
                    i \in IF vp6.init_called THEN LibInitCalls(vp6) ELSE BackendLibInit,
                    d \in LibDecodeCalls(vp6, data) \cap
                            (BackendLibDecode \cup {[kind |-> "Err", buffer |-> None]})}

\* The renderer is called only with a decoded frame.
RendererCalls(self, handle, data, lib) ==
    LET found == Arena_get(self, handle)
    IN  IF IsSome(found)
            /\ Decoder_decode_frame(Unwrap(found).decoder, data, lib).result.kind = "Ok"
        THEN RendererOutcomes
        ELSE {NotRendered}

\* A panic aborts the program: nothing runs after it.
BackendAborted == ret.kind = "Panic"

RegisterVideoStream ==
    /\ ~BackendAborted
    /\ \E size \in BackendBounds, codec \in BackendCodecs :
          /\ Len(streams) < MaxStreams \/ ~IsSome(NewDecoder(codec, size))
          /\ \E call \in {register_video_stream(streams, size, codec)} :
                 /\ streams' = call.streams
                 /\ issued' = issued \cup {call.handle[i] : i \in 1..Len(call.handle)}
                 /\ asked' = [i \in 1..Len(call.streams) |->
                                IF i <= Len(asked) THEN asked[i] ELSE FALSE]
                 /\ ret' = [NoBackendCall EXCEPT
                                !.op = "register", !.codec = codec,
                                !.kind = call.kind, !.error = call.error,
                                !.returned = call.handle]
    /\ UNCHANGED decoderVars

PreloadVideoStreamFrame ==
    /\ ~BackendAborted
    /\ \E input \in HandleInputs, data \in BackendPayloads :
       \E lib \in PreloadLibrary(streams, input.handle) :
       \E call \in {preload_video_stream_frame(streams, input.handle, data, lib)} :
              ret' = [NoBackendCall EXCEPT
                        !.op = "preload", !.handle = Some(input.handle),
                        !.origin = input.origin,
                        !.kind = call.kind, !.error = call.error,
                        !.dependency = call.dependency,
                        !.parsed = IF IsH263Stream(streams, input.handle)
                                   THEN Some(lib.parsed) ELSE None]
    /\ UNCHANGED <<streams, issued, asked, decoderVars>>

DecodeVideoStreamFrame ==
    /\ ~BackendAborted
    /\ \E input \in HandleInputs, data \in BackendPayloads :
       \E lib \in DecodeLibrary(streams, input.handle, data) :
       \E rendered \in RendererCalls(streams, input.handle, data, lib) :
       \E call \in {decode_video_stream_frame(streams, input.handle, data, lib, rendered)} :
       \E registers \in {call.renderer = "register_bitmap_raw"} :
          /\ streams' = call.streams
          /\ asked' = IF registers
                      THEN [asked EXCEPT ![input.handle.index + 1] = TRUE]
                      ELSE asked
          /\ ret' = [NoBackendCall EXCEPT
                        !.op = "decode", !.handle = Some(input.handle),
                        !.origin = input.origin,
                        !.kind = call.kind, !.error = call.error,
                        !.info = call.info, !.renderer = call.renderer,
                        !.again = registers /\ asked[input.handle.index + 1],
                        !.rendered = rendered,
                        !.data = data, !.lib = lib]
    /\ UNCHANGED <<issued, decoderVars>>

Init ==
    /\ BackendInitial
    /\ dec = Vp6Decoder_default
    /\ dret = NoCall
    /\ hist = NoHistory

Next == RegisterVideoStream \/ PreloadVideoStreamFrame \/ DecodeVideoStreamFrame

Spec == Init /\ [][Next]_vars

(***************************************************************************)
(* Properties of the VP6 decoder (checked under SpecVp6).                  *)
(***************************************************************************)
DecodeReturned == dret.op = "decode_frame"

InitErrors == {ErrBoolCoder, ErrHeader, ErrInit}

C2_SkipWithoutPriorFrameFails ==
    (DecodeReturned /\ IsSkipFrame(dec, dret.data) /\ ~hist.real_ok)
        => (dret.result.kind = "Err" /\ dret.result.error = ErrNoPreviousFrame)

\* C3, as claimed: every preload_frame / decode_frame call returns Ok or Err;
\* none aborts.
C3_NoCallAborts == dret.result.kind # "Panic"

C7_SkipRepeatsLastDecode ==
    (DecodeReturned /\ IsSkipFrame(dec, dret.data) /\ hist.real_ok)
        => (dret.result.kind = "Ok" /\ dret.result.frame = hist.last_ok)

C7_Witness ==
    /\ DecodeReturned /\ dret.result.kind = "Ok" /\ dret.result.skip
    /\ hist.real_ok /\ dret.result.frame = hist.last_ok

\* C9: a decode_frame call that fails in lazy initialisation leaves
\* init_called false and last_frame as it was, and counts no initialisation.
C9_FailedInitChangesNothing ==
    [][(dret'.op = "decode_frame" /\ dret'.result.kind = "Err"
            /\ dret'.result.error \in InitErrors)
        => (/\ dec' = dec
            /\ ~dec'.init_called
            /\ dret'.result.init_attempted /\ ~dret'.result.init_done
            /\ hist'.inits = hist.inits)]_vars

C9_Witness ==
    /\ DecodeReturned /\ dret.result.kind = "Err" /\ dret.result.error = ErrInit
    /\ ~dec.init_called /\ hist.calls >= 2

\* C10: a successful decode_frame of a w x h picture under bounds (bw, bh)
\* returns width = min(w, bw), height = min(h, bh) and width * height * 4 bytes.
C10_CroppedToBounds ==
    (DecodeReturned /\ dret.result.kind = "Ok") =>
        LET f == Unwrap(dec.last_frame)
            d == Unwrap(dret.result.frame)
        IN  /\ d.width = Min(f.w, dec.bounds[1])
            /\ d.height = Min(f.h, dec.bounds[2])
            /\ d.width <= dec.bounds[1] /\ d.height <= dec.bounds[2]
            /\ Len(d.rgba) = d.width * d.height * BytesPerPixel

C10_Witness ==
    /\ DecodeReturned /\ dret.result.kind = "Ok" /\ ~dret.result.skip
    /\ Unwrap(dec.last_frame).w > dec.bounds[1]
    /\ Unwrap(dec.last_frame).h > dec.bounds[2]
    /\ Unwrap(dret.result.frame).width = dec.bounds[1]
    /\ Unwrap(dret.result.frame).height = dec.bounds[2]

\* The 4 bytes of pixel (r, c) in a buffer of rows of `stride` pixels
Pixel(buf, stride, r, c) ==
    SubSeq(buf, (r * stride + c) * BytesPerPixel + 1, (r * stride + c + 1) * BytesPerPixel)

\* C11: when the decoded width exceeds the bound width bw, the returned buffer
\* holds min(h, bh) rows of stride bw, output pixel (r, c) is pixel (r, c) of
\* the uncropped buffer, and each row is copied to a place that lies before
\* its own source and ends before the source of the next row.
C11_CropKeepsPixels ==
    (DecodeReturned /\ dret.result.kind = "Ok"
        /\ Unwrap(dec.last_frame).w > dec.bounds[1]) =>
        LET f == Unwrap(dec.last_frame)
            d == Unwrap(dret.result.frame)
            bw == dec.bounds[1]
            src == RgbaTable[dec.with_alpha, f]
        IN  /\ d.width = bw
            /\ d.height = Min(f.h, dec.bounds[2])
            /\ Len(d.rgba) = bw * d.height * BytesPerPixel
            /\ \A r \in 0..(d.height - 1), c \in 0..(bw - 1) :
                    Pixel(d.rgba, bw, r, c) = Pixel(src, f.w, r, c)
            /\ \A row \in 1..(d.height - 1) :
                    /\ row * bw * BytesPerPixel < row * f.w * BytesPerPixel
                    /\ (row * bw + bw) * BytesPerPixel <= (row + 1) * f.w * BytesPerPixel

C11_Witness ==
    /\ DecodeReturned /\ dret.result.kind = "Ok" /\ ~dret.result.skip
    /\ Unwrap(dec.last_frame).w > dec.bounds[1]
    /\ Unwrap(dec.last_frame).h > dec.bounds[2]
    /\ Unwrap(dret.result.frame).height >= 2
    /\ Unwrap(dret.result.frame).rgba #
          SubSeq(RgbaTable[dec.with_alpha, Unwrap(dec.last_frame)], 1,
                 Len(Unwrap(dret.result.frame).rgba))

\* The output pixel the alpha step must give for colour px and alpha sample a
Composited(px, a) == <<Min(px[1], a), Min(px[2], a), Min(px[3], a), a>>

\* C12: with the alpha flag set, every pixel of the converted frame with colour
\* (R, G, B) and alpha sample a becomes (min(R, a), min(G, a), min(B, a), a), in
\* the uncropped buffer and in the returned one; so no colour channel exceeds
\* the alpha, and (200, 200, 200) with alpha 100 gives (100, 100, 100, 100).
C12_AlphaClampsColour ==
    (DecodeReturned /\ dret.result.kind = "Ok" /\ dec.with_alpha) =>
        LET f == Unwrap(dec.last_frame)
            d == Unwrap(dret.result.frame)
            rgb == RgbTable[TRUE, f]
            alpha == AlphaTable[f]
            rgba == RgbaTable[TRUE, f]
        IN  /\ \A r \in 0..(f.h - 1), c \in 0..(f.w - 1) :
                    Pixel(rgba, f.w, r, c)
                        = Composited(Pixel(rgb, f.w, r, c), alpha[r * f.w + c + 1])
            /\ \A r \in 0..(d.height - 1), c \in 0..(d.width - 1) :
                    /\ Pixel(d.rgba, d.width, r, c)
                        = Composited(Pixel(rgb, f.w, r, c), alpha[r * f.w + c + 1])
                    /\ \A ch \in 1..3 :
                        Pixel(d.rgba, d.width, r, c)[ch] <= Pixel(d.rgba, d.width, r, c)[4]
            /\ AlphaPixel(200, 200, 200, 100) = <<100, 100, 100, 100>>

C12_Witness ==
    /\ DecodeReturned /\ dret.result.kind = "Ok" /\ dec.with_alpha
    /\ LET f == Unwrap(dec.last_frame)
           d == Unwrap(dret.result.frame)
       IN  /\ \E r \in 0..(d.height - 1), c \in 0..(d.width - 1) :
                Pixel(RgbTable[TRUE, f], f.w, r, c)[1] > Pixel(d.rgba, d.width, r, c)[4]
           /\ \E r \in 0..(d.height - 1), c \in 0..(d.width - 1) :
                Pixel(RgbTable[TRUE, f], f.w, r, c)[1] < Pixel(d.rgba, d.width, r, c)[4]

\* C13: preload_frame never fails, answers FrameDependency::None when the
\* payload is non-empty and the top bit of its first byte is clear and
\* FrameDependency::Past otherwise (top bit set, or empty payload), whatever the
\* other bits and bytes are, and leaves the decoder as it was.
C13_PreloadReadsTopBit ==
    [][dret'.op = "preload_frame" =>
        /\ dret'.result.kind = "Ok"
        /\ dret'.result.dependency =
              (IF Len(dret'.data) > 0 /\ dret'.data[1] < TopBit
               THEN "FrameDependency::None" ELSE "FrameDependency::Past")
        /\ dec' = dec
        /\ dec'.init_called = dec.init_called /\ dec'.last_frame = dec.last_frame]_vars

C13_Witness ==
    /\ dret.op = "preload_frame" /\ dret.data = <<127, 128>>
    /\ dret.result.dependency = "FrameDependency::None"
    /\ dec.init_called /\ IsSome(dec.last_frame)

\* C14: a decoded picture narrower or lower than the bounds is not an error:
\* a decode_frame call that obtained a new picture returns Ok, a returned frame
\* keeps the picture's own width (height) where that is below the bound, with
\* width * height * 4 bytes and no padding, and the warning is emitted exactly
\* for the pictures smaller than the bounds.
C14_UndersizedIsNotFatal ==
    [][dret'.op = "decode_frame" =>
        /\ dec'.last_frame # dec.last_frame => dret'.result.kind = "Ok"
        /\ dret'.result.warned => dret'.result.kind = "Ok"
        /\ dret'.result.kind = "Ok" =>
            LET f == Unwrap(dec'.last_frame)
                d == Unwrap(dret'.result.frame)
            IN  /\ dret'.result.warned <=> (f.w < dec'.bounds[1] \/ f.h < dec'.bounds[2])
                /\ f.w < dec'.bounds[1] => d.width = f.w
                /\ f.h < dec'.bounds[2] => d.height = f.h
                /\ Len(d.rgba) = d.width * d.height * BytesPerPixel
                /\ (f.w < dec'.bounds[1] /\ f.h < dec'.bounds[2])
                      => d.rgba = RgbaTable[dec'.with_alpha, f]]_vars

C14_Witness ==
    /\ DecodeReturned /\ dret.result.kind = "Ok" /\ dret.result.warned
    /\ Unwrap(dec.last_frame).w < dec.bounds[1]
    /\ Unwrap(dec.last_frame).h < dec.bounds[2]
    /\ Unwrap(dret.result.frame).width = Unwrap(dec.last_frame).w
    /\ Unwrap(dret.result.frame).height = Unwrap(dec.last_frame).h

\* C19: in every state last_frame is Some only if init_called is true, and it
\* is Some exactly when an earlier decode_frame call completed a real
\* (non-skip) decode that yielded a video buffer; a decode_frame call on a skip
\* frame leaves last_frame as it was, and last_frame changes only in a
\* successful real decode.
C19_LastFrameNeedsRealDecode ==
    /\ [](IsSome(dec.last_frame) => dec.init_called)
    /\ [](IsSome(dec.last_frame) <=> hist.real_ok)
    /\ [][/\ (dret'.op = "decode_frame" /\ IsSkipFrame(dec, dret'.data))
                => dec'.last_frame = dec.last_frame
          /\ dec'.last_frame # dec.last_frame
                => (/\ dret'.op = "decode_frame" /\ dret'.result.kind = "Ok"
                    /\ ~dret'.result.skip /\ ~IsSkipFrame(dec, dret'.data)
                    /\ IsSome(dec'.last_frame))]_vars

C19_Witness ==
    /\ DecodeReturned /\ dret.result.kind = "Ok" /\ dret.result.skip
    /\ IsSome(dec.last_frame) /\ dec.init_called /\ hist.real_ok /\ hist.calls >= 2

\* What a decode_frame call with an empty payload returns in state self, for
\* every outcome the library calls it reaches may have
SkipResults(self) ==
    {Vp6Decoder_decode_frame(self, <<>>, lib, decoded).result :
        lib \in LibInitCalls(self), decoded \in LibDecodeCalls(self, <<>>)}

\* C20: a real (non-skip) decode_frame call that fails in the bitstream decode
\* or with a buffer-type mismatch leaves last_frame as it was (and an already
\* initialised decoder wholly as it was), so a skip frame given next returns
\* the frame of the last successful decode, or the missing-prior-frame error
\* if there was none.
C20_FailedRealDecodeKeepsLastFrame ==
    [][(dret'.op = "decode_frame" /\ dret'.result.kind = "Err"
            /\ dret'.result.error \in {ErrDecoder, ErrBufferType})
        => (/\ ~dret'.result.skip /\ dec'.init_called
            /\ dec'.last_frame = dec.last_frame
            /\ dec.init_called => dec' = dec
            /\ hist'.real_ok = hist.real_ok /\ hist'.last_ok = hist.last_ok
            /\ \A next \in SkipResults(dec') :
                IF hist.real_ok
                THEN next.kind = "Ok" /\ next.skip /\ next.frame = hist.last_ok
                ELSE next.kind = "Err" /\ next.error = ErrNoPreviousFrame)]_vars

C20_Witness ==
    /\ DecodeReturned /\ dret.result.kind = "Err" /\ dret.result.error = ErrBufferType
    /\ ~dret.result.init_attempted
    /\ hist.real_ok /\ IsSome(dec.last_frame)

(***************************************************************************)
(* Properties of the stream registry (checked under Spec).                 *)
(***************************************************************************)
HandleCall == ret.op \in {"preload", "decode"}

Unregistered == ret.kind = "Err" /\ ret.error = ErrUnregistered

SupportedCodecs == {"H263", "Vp6", "Vp6WithAlpha"}

BitmapOf(arena, i) == arena[i].value.bitmap

\* C4, as claimed: preload / decode with a handle this backend instance did not
\* return (a forged one, or one returned by another instance) fails with
\* "Unregistered video stream".
C4_ForeignHandleRejected ==
    (HandleCall /\ ret.origin # "own") => Unregistered

\* What get_mut does with a handle: it fails with "Unregistered video stream"
\* exactly when the handle's (index, generation) matches no slot of this
\* backend's arena; a handle of another instance whose index this backend has
\* allocated resolves to this backend's stream.
UnknownSlotRejected ==
    HandleCall =>
        /\ Unregistered <=> Unwrap(ret.handle) \notin issued
        /\ ret.origin = "never" => Unregistered

\* C5, as claimed: register_bitmap_raw is called at most once per stream.
C5_RegisterAskedOnce == ~ret.again

\* C5, amended: a stream's bitmap is None until the first decode call on it
\* that returns Ok and Some ever after; register_bitmap_raw is called exactly
\* for a decoded frame of a stream whose bitmap is None (again after each
\* failed registration, so it succeeds at most once per stream), and every
\* later decoded frame goes through update_texture.
C5_BitmapRegisteredWhileNone ==
    [][/\ \A i \in 1..Len(streams) :
            /\ IsSome(BitmapOf(streams, i)) => IsSome(BitmapOf(streams', i))
            /\ (~IsSome(BitmapOf(streams, i)) /\ IsSome(BitmapOf(streams', i)))
                  => /\ ret'.op = "decode" /\ ret'.kind = "Ok"
                     /\ ret'.renderer = "register_bitmap_raw"
                     /\ Unwrap(ret'.handle).index + 1 = i
       /\ (ret'.op = "decode" /\ ret'.renderer # "none")
            => LET i == Unwrap(ret'.handle).index + 1
               IN  /\ ret'.renderer = "register_bitmap_raw" <=> ~IsSome(BitmapOf(streams, i))
                   /\ ret'.renderer = "update_texture" <=> IsSome(BitmapOf(streams, i))
                   /\ ret'.kind = "Ok" => IsSome(BitmapOf(streams', i))
                   /\ ret'.kind # "Ok" => BitmapOf(streams', i) = BitmapOf(streams, i)
       /\ (ret'.op = "decode" /\ ret'.kind = "Ok") => ret'.renderer # "none"]_vars

C5_Witness ==
    /\ ret.op = "decode" /\ ret.kind = "Ok" /\ ret.renderer = "update_texture"
    /\ IsSome(BitmapOf(streams, Unwrap(ret.handle).index + 1))

\* C8: registering a codec without decoder returns the unsupported-codec error
\* and leaves the registry as it was: same slots, no handle issued, every
\* handle returned before resolves to the same stream.
C8_UnsupportedCodecChangesNothing ==
    [][(ret'.op = "register" /\ ret'.codec \notin SupportedCodecs)
        => (/\ ret'.kind = "Err" /\ ret'.error = ErrUnsupportedCodec
            /\ ret'.returned = None
            /\ Len(streams') = Len(streams)
            /\ streams' = streams
            /\ issued' = issued
            /\ \A h \in issued :
                 IsSome(Arena_get(streams', h))
                    /\ Arena_get(streams', h) = Arena_get(streams, h))]_vars

C8_Witness ==
    /\ ret.op = "register" /\ ret.codec = "ScreenVideo" /\ ret.kind = "Err"
    /\ Len(streams) >= 1 /\ issued # {}

\* C15: H.263 preload_frame answers FrameDependency::None for an intra-coded
\* picture, FrameDependency::Past for a predicted or disposable-predicted
\* picture, and the invalid-picture-type error for every other type code.
C15_H263PreloadMapsPictureType ==
    (ret.op = "preload" /\ IsSome(ret.parsed) /\ Unwrap(ret.parsed).kind = "Picture") =>
        LET t == Unwrap(ret.parsed).picture_type
        IN  /\ t = "IFrame" =>
                (ret.kind = "Ok" /\ ret.dependency = "FrameDependency::None")
            /\ t \in {"PFrame", "DisposablePFrame"} =>
                (ret.kind = "Ok" /\ ret.dependency = "FrameDependency::Past")
            /\ t \notin {"IFrame", "PFrame", "DisposablePFrame"} =>
                (ret.kind = "Err" /\ ret.error = ErrPictureType)

C15_Witness ==
    /\ ret.op = "preload" /\ IsSome(ret.parsed)
    /\ Unwrap(ret.parsed).kind = "Picture"
    /\ Unwrap(ret.parsed).picture_type = "DisposablePFrame"
    /\ ret.kind = "Ok" /\ ret.dependency = "FrameDependency::Past"

\* The DecodedFrame of the picture a stream's decoder holds after a decode
LastDecoded(stream) ==
    IF stream.decoder.codec = "H263"
    THEN H263Table[Unwrap(stream.decoder.state.last_picture)]
    ELSE Converted(stream.decoder.state.with_alpha, stream.decoder.state.bounds,
                   Unwrap(stream.decoder.state.last_frame))

\* C16: a successful decode_video_stream_frame returns a BitmapInfo whose handle
\* is the one the renderer returned and the one stored on the stream after the
\* call, and whose width and height are those of the decoded frame after
\* cropping.
C16_BitmapInfoMatchesStream ==
    (ret.op = "decode" /\ ret.kind = "Ok") =>
        LET stream == streams[Unwrap(ret.handle).index + 1].value
            info == Unwrap(ret.info)
            state == stream.decoder.state
        IN  /\ ret.rendered.ok /\ info.handle = ret.rendered.handle
            /\ stream.bitmap = Some(info.handle)
            /\ info.width = LastDecoded(stream).width
            /\ info.height = LastDecoded(stream).height
            /\ stream.decoder.codec = "Vp6" =>
                /\ info.width = Min(Unwrap(state.last_frame).w, state.bounds[1])
                /\ info.height = Min(Unwrap(state.last_frame).h, state.bounds[2])
            /\ stream.decoder.codec = "H263" =>
                /\ info.width = Unwrap(state.last_picture).w
                /\ info.height = Unwrap(state.last_picture).h

C16_Witness ==
    /\ ret.op = "decode" /\ ret.kind = "Ok" /\ ret.renderer = "update_texture"
    /\ streams[Unwrap(ret.handle).index + 1].value.decoder.codec = "Vp6"
    /\ Unwrap(ret.info).width = 20 /\ Unwrap(ret.info).height = 16
    /\ Unwrap(ret.info).handle = 2

\* C17: a successful register_video_stream returns a handle no earlier
\* registration of this backend returned; distinct handles resolve to distinct
\* slots; and every handle returned so far keeps resolving, through any
\* register / preload / decode call, to its own slot, whose stream (decoder and
\* bitmap) is touched by no call other than a decode made with that handle.
C17_HandlesStableAndUnique ==
    [][/\ (ret'.op = "register" /\ ret'.kind = "Ok") =>
            /\ Unwrap(ret'.returned) \notin issued
            /\ Unwrap(ret'.returned) \in issued'
            /\ IsSome(Arena_get(streams', Unwrap(ret'.returned)))
       /\ issued \subseteq issued'
       /\ Cardinality(issued') = Len(streams')
       /\ \A h1, h2 \in issued' : h1 # h2 => h1.index # h2.index
       /\ \A h \in issued :
            /\ IsSome(Arena_get(streams', h))
            /\ Unwrap(Arena_get(streams', h)) = streams'[h.index + 1].value
            /\ Unwrap(Arena_get(streams', h)).decoder.codec
                    = Unwrap(Arena_get(streams, h)).decoder.codec
            /\ Arena_get(streams', h) # Arena_get(streams, h)
                    => (ret'.op = "decode" /\ ret'.handle = Some(h))]_vars

C17_Witness ==
    /\ ret.op = "register" /\ ret.kind = "Ok"
    /\ Cardinality(issued) = 2 /\ Len(streams) = 2
    /\ Unwrap(ret.returned).index = 1
    /\ IsSome(BitmapOf(streams, 1))
    /\ streams[1].value.decoder.codec # streams[2].value.decoder.codec

\* The errors decode_frame of either decoder returns
DecoderErrors ==
    InitErrors \cup {ErrNoPreviousFrame, ErrDecoder, ErrBufferType, ErrH263Parse, ErrH263Format}

\* C18: a decode_video_stream_frame call that fails because the handle is
\* unregistered or because decode_frame returned an error calls neither
\* register_bitmap_raw nor update_texture and leaves the bitmap handle of every
\* stream as it was.
C18_FailedDecodeSkipsRenderer ==
    [][(ret'.op = "decode" /\ ret'.kind = "Err"
            /\ ret'.error \in DecoderErrors \cup {ErrUnregistered})
        => (/\ ret'.renderer = "none"
            /\ ret'.rendered = NotRendered
            /\ ret'.info = None
            /\ asked' = asked
            /\ Len(streams') = Len(streams)
            /\ \A i \in 1..Len(streams) : BitmapOf(streams', i) = BitmapOf(streams, i))]_vars

C18_Witness ==
    /\ ret.op = "decode" /\ ret.kind = "Err" /\ ret.error \in DecoderErrors
    /\ ret.renderer = "none"
    /\ IsSome(BitmapOf(streams, Unwrap(ret.handle).index + 1))

\* C21: when decode_frame succeeds and the renderer's register or update
\* operation fails, decode_video_stream_frame returns the error, the stream's
\* bitmap handle and every other stream stay as they were, and the stream's
\* decoder is left as decode_frame made it (a VP6 decoder initialised, holding
\* the picture of the frame it returned), so that a skip frame given next to a
\* VP6 stream returns the frame whose upload failed.
C21_RendererFailureKeepsDecoderState ==
    [][(ret'.op = "decode" /\ ret'.kind = "Err" /\ ret'.error = ErrRenderer) =>
        LET i == Unwrap(ret'.handle).index + 1
            before == streams[i].value
            after == streams'[i].value
            call == Decoder_decode_frame(before.decoder, ret'.data, ret'.lib)
        IN  /\ call.result.kind = "Ok"
            /\ ret'.renderer = RendererCall(before) /\ ~ret'.rendered.ok
            /\ ret'.info = None
            /\ after.bitmap = before.bitmap
            /\ after.decoder = call.decoder
            /\ Len(streams') = Len(streams)
            /\ \A j \in 1..Len(streams) : j # i => streams'[j] = streams[j]
            /\ after.decoder.codec = "Vp6" =>
                /\ after.decoder.state.init_called
                /\ IsSome(after.decoder.state.last_frame)
                /\ ~IsSkipFrame(before.decoder.state, ret'.data) =>
                        after.decoder.state.last_frame = ret'.lib.decoded.buffer
                /\ \A next \in SkipResults(after.decoder.state) :
                        next.kind = "Ok" /\ next.frame = call.result.frame]_vars

C21_Witness ==
    /\ ret.op = "decode" /\ ret.kind = "Err" /\ ret.error = ErrRenderer
    /\ ret.renderer = "register_bitmap_raw" /\ Len(ret.data) > 0
    /\ LET stream == streams[Unwrap(ret.handle).index + 1].value
       IN  /\ stream.decoder.codec = "Vp6"
           /\ ~IsSome(stream.bitmap)
           /\ stream.decoder.state.init_called
           /\ stream.decoder.state.last_frame = ret.lib.decoded.buffer
           /\ IsSome(stream.decoder.state.last_frame)

====
